---- MODULE Spec2Model ----
(***************************************************************************)
(* Model of the helper functions of imcflibs.imagej.misc and               *)
(* imcflibs.imagej.omerotools.                                             *)
(*                                                                         *)
(* The functions are stateless wrappers, so every function gets its own    *)
(* group of variables (its arguments, the external objects it touches and  *)
(* its outcome) and its own specification whose Init draws the arguments   *)
(* from bounded sets and whose actions are the calls.                      *)
(*                                                                         *)
(* The code runs in Fiji's Jython interpreter (misc.py:11 imports ij,      *)
(* omerotools.py:23 imports java.lang, misc.py:515 hands a file opened in  *)
(* binary mode to csv), so arithmetic follows Python 2.7: "/" between two  *)
(* ints is floor division and round() rounds halves away from zero.        *)
(* Floats are modelled as exact rationals <<numerator, denominator>>.      *)
(***************************************************************************)
EXTENDS Integers, Sequences, FiniteSets, TLC

VARIABLES
    \* calculate_mean_and_stdv(values_list, round_decimals)
    values_list,      \* sequence of None / numbers
    float_values,     \* TRUE: the numbers are floats, FALSE: they are ints
    round_decimals,
    stats_pc,         \* "idle", "call" (not yet called) or "done" (returned)
    stats_ret,        \* the returned pair [mean |-> rational, std_dev |-> rational]
    \* elapsed_time_since(start, end), times in milliseconds
    start,
    end,              \* None (argument left out) or <<time>>
    elapsed_pc,
    elapsed_ret,      \* the returned string, a sequence of characters
    \* percentage(part, whole)
    part,
    whole,
    pct_pc,           \* "idle", "call", "done" or "raised" (ZeroDivisionError)
    pct_ret,          \* the returned float
    \* parse_url(client, omero_str)
    omero_form,       \* how omero_str was written from omero_ids
    omero_ids,        \* the ids written into omero_str
    omero_str,        \* the argument, a sequence of characters
    parse_pc,         \* "idle", "call", "done" or "raised"
    parse_ret,        \* the returned list of ImageWrappers (each its image id)
    getImage_calls,   \* ids passed to client.getImage, in call order
    getDataset_calls, \* ids passed to client.getDataset, in call order
    \* send_notification_email(job_name, recipient, filename,
    \*                         total_execution_time, subject, message)
    pref_sender,      \* the preference imcf.sender_email ("" when unset)
    pref_server,      \* the preference imcf.smtpserver ("" when unset)
    recipient,
    subject,
    message,
    mail_pc,          \* "idle", "call", "done" or "raised"
    smtp_calls,       \* calls made on smtplib, in order
    smtp_failure,     \* the exception an smtplib call raised, "none" if none did
    mail_log,         \* levels of the log records written, in order
    \* find_focus(imp)
    imp_dimensions,   \* imp.getDimensions(): <<width, height, channels, slices, frames>>
    imp_pixels,       \* imp_pixels[t][z]: the pixel array of slice z at timepoint t
    imp_t,            \* the image's current timepoint
    imp_z,            \* the image's current z position
    pixel_reads,      \* number of getProcessor().getPixels() calls
    focus_pc,         \* "idle", "call", "done", "exit" (SystemExit) or "raised"
    focus_ret,        \* the returned slice number
    \* write_ordereddict_to_csv(out_file, content), calls on one out_file
    csv_exists,       \* os.path.exists(out_file)
    csv_rows,         \* the rows of out_file, each a tuple of cells
    csv_pc,           \* "idle", "ready", "done" (last call returned) or "raised"
    csv_calls,        \* number of calls made
    csv_existed,      \* out_file existed before the first call
    csv_failed,       \* some call raised
    csv_keys,         \* the key lists the calls that returned were made with
    csv_written,      \* the rows handed to the calls that returned, in call order
    \* save_image_in_format(imp, format, out_dir, series, pad_number, split_channels)
    save_format,
    imp_channels,     \* imp.getNChannels()
    out_dir,          \* a path: the sequence of its components
    series,
    pad_number,
    split_channels,
    save_pc,          \* "idle", "call" or "done"
    save_calls,       \* the savers called, in order, with the location each writes to
    dirs_created,     \* the paths handed to pathtools.create_directory, in order
    \* locate_latest_imaris(paths_to_check)
    installed,        \* the folders on disk, each a sequence of characters
    paths_to_check,   \* <<>> for None and for the empty list
    locate_pc,        \* "idle", "call", "done" or "raised" (ValueError)
    sorted_hits,      \* per entry of paths_to_check: its hits as line 664 sorts them
    locate_ret,       \* the returned path
    \* save_script_parameters(destination, save_file_name)
    module_found,     \* globals() holds "org.scijava.script.ScriptModule"
    declared_inputs,  \* script_info.inputs(): records [name, style, value], in order
    script_pc,        \* "idle", "call" or "done"
    file_opened,      \* out_path was opened for writing
    file_lines,       \* the strings written to out_path, in order
    script_printed    \* what the function printed: "skipped", "saved" or "nothing"

statsVars == <<values_list, float_values, round_decimals, stats_pc, stats_ret>>
elapsedVars == <<start, end, elapsed_pc, elapsed_ret>>
pctVars == <<part, whole, pct_pc, pct_ret>>
parseVars == <<omero_form, omero_ids, omero_str, parse_pc, parse_ret,
               getImage_calls, getDataset_calls>>

mailVars == <<pref_sender, pref_server, recipient, subject, message, mail_pc,
              smtp_calls, smtp_failure, mail_log>>

focusVars == <<imp_dimensions, imp_pixels, imp_t, imp_z, pixel_reads, focus_pc, focus_ret>>
csvVars == <<csv_exists, csv_rows, csv_pc, csv_calls, csv_existed, csv_failed,
             csv_keys, csv_written>>
saveVars == <<save_format, imp_channels, out_dir, series, pad_number, split_channels,
              save_pc, save_calls, dirs_created>>
locateVars == <<installed, paths_to_check, locate_pc, sorted_hits, locate_ret>>
scriptVars == <<module_found, declared_inputs, script_pc, file_opened, file_lines,
                script_printed>>

vars == <<statsVars, elapsedVars, pctVars, parseVars, mailVars, focusVars, csvVars,
          saveVars, locateVars, scriptVars>>

\* What a call of one function leaves alone.
notStats == <<elapsedVars, pctVars, parseVars, mailVars, focusVars, csvVars,
    saveVars, locateVars, scriptVars>>
notElapsed == <<statsVars, pctVars, parseVars, mailVars, focusVars, csvVars,
    saveVars, locateVars, scriptVars>>
notPct == <<statsVars, elapsedVars, parseVars, mailVars, focusVars, csvVars,
    saveVars, locateVars, scriptVars>>
notParse == <<statsVars, elapsedVars, pctVars, mailVars, focusVars, csvVars,
    saveVars, locateVars, scriptVars>>
notMail == <<statsVars, elapsedVars, pctVars, parseVars, focusVars, csvVars,
    saveVars, locateVars, scriptVars>>
notFocus == <<statsVars, elapsedVars, pctVars, parseVars, mailVars, csvVars,
    saveVars, locateVars, scriptVars>>
notCsv == <<statsVars, elapsedVars, pctVars, parseVars, mailVars, focusVars,
    saveVars, locateVars, scriptVars>>
notSave == <<statsVars, elapsedVars, pctVars, parseVars, mailVars, focusVars, csvVars,
    locateVars, scriptVars>>
notLocate == <<statsVars, elapsedVars, pctVars, parseVars, mailVars, focusVars, csvVars,
    saveVars, scriptVars>>
notScript == <<statsVars, elapsedVars, pctVars, parseVars, mailVars, focusVars, csvVars,
    saveVars, locateVars>>

-----------------------------------------------------------------------------
(* Python values and arithmetic                                            *)

\* A list element is None or a number: None is <<>>, the number v is <<v>>.
None == <<>>
Num(v) == <<v>>

\* The value of a function that has not returned (never read before it has).
NoValue == <<>>

Abs(x) == IF x < 0 THEN -x ELSE x

RECURSIVE Gcd(_, _)
Gcd(a, b) == IF b = 0 THEN a ELSE Gcd(b, a % b)

\* A float: the exact rational n/d in lowest terms with d > 0.
Rat(n, d) ==
    LET s == IF d < 0 THEN -1 ELSE 1
        g == Gcd(Abs(n), Abs(d))
    IN  <<(s * n) \div g, (s * d) \div g>>

RECURSIVE Pow10(_)
Pow10(k) == IF k = 0 THEN 1 ELSE 10 * Pow10(k - 1)

\* Python 2 "a / b" on two ints: floor division (TLA+ \div floors as well).
IntDiv(a, b) == a \div b

\* round(n/d, 0), d > 0, halves away from zero (Python 2 round()).
RoundHalfAway(n, d) ==
    IF n >= 0 THEN (2 * n + d) \div (2 * d)
              ELSE -((2 * (-n) + d) \div (2 * d))

\* round(sqrt(v/n)), v >= 0, n > 0: the k with (k - 1/2)^2 <= v/n < (k + 1/2)^2.
RoundSqrt(v, n) ==
    CHOOSE k \in 0..(v + 1) :
        /\ (k = 0 \/ (2 * k - 1) * (2 * k - 1) * n <= 4 * v)
        /\ 4 * v < (2 * k + 1) * (2 * k + 1) * n

\* str(n) for an int n: its decimal digits, one character each.
DigitChar(d) == CASE d = 0 -> "0" [] d = 1 -> "1" [] d = 2 -> "2" [] d = 3 -> "3"
                  [] d = 4 -> "4" [] d = 5 -> "5" [] d = 6 -> "6" [] d = 7 -> "7"
                  [] d = 8 -> "8" [] d = 9 -> "9"

RECURSIVE NatStr(_)
NatStr(n) == IF n < 10 THEN <<DigitChar(n)>> ELSE NatStr(n \div 10) \o <<DigitChar(n % 10)>>

IntStr(n) == IF n < 0 THEN <<"-">> \o NatStr(-n) ELSE NatStr(n)

\* The format specs "0>w" and "0w": fill with "0" on the left up to width w.
RECURSIVE ZeroFill(_, _)
ZeroFill(str, w) == IF Len(str) >= w THEN str ELSE ZeroFill(<<"0">> \o str, w)

\* Reading a string of decimal digits as a number.
Digits == {"0", "1", "2", "3", "4", "5", "6", "7", "8", "9"}
DigitVal(c) == CHOOSE d \in 0..9 : DigitChar(d) = c

AllDigits(str) == \A i \in 1..Len(str) : str[i] \in Digits

RECURSIVE StrNat(_)
StrNat(str) ==
    IF str = <<>> THEN 0
    ELSE 10 * StrNat(SubSeq(str, 1, Len(str) - 1)) + DigitVal(str[Len(str)])

\* sub in str, str.find(sub), str.split(sep) and str.replace(old, "").
StartsAt(str, sub, i) ==
    i + Len(sub) - 1 <= Len(str) /\ SubSeq(str, i, i + Len(sub) - 1) = sub

Contains(str, sub) == \E i \in 1..Len(str) : StartsAt(str, sub, i)

\* Index of the first occurrence of sub in str, 0 if there is none.
Find(str, sub) ==
    IF Contains(str, sub)
    THEN CHOOSE i \in 1..Len(str) :
            StartsAt(str, sub, i) /\ \A j \in 1..(i - 1) : ~StartsAt(str, sub, j)
    ELSE 0

RECURSIVE Split(_, _)
Split(str, sep) ==
    LET i == Find(str, sep)
    IN  IF i = 0 THEN <<str>>
        ELSE <<SubSeq(str, 1, i - 1)>> \o Split(SubSeq(str, i + Len(sep), Len(str)), sep)

RECURSIVE Concat(_)
Concat(strs) == IF strs = <<>> THEN <<>> ELSE Head(strs) \o Concat(Tail(strs))

Remove(str, old) == Concat(Split(str, old))

\* str.strip(): leading and trailing blanks removed.
RECURSIVE LStrip(_)
LStrip(str) == IF str # <<>> /\ Head(str) = " " THEN LStrip(Tail(str)) ELSE str

RECURSIVE RStrip(_)
RStrip(str) ==
    IF str # <<>> /\ str[Len(str)] = " " THEN RStrip(SubSeq(str, 1, Len(str) - 1)) ELSE str

Strip(str) == RStrip(LStrip(str))

RECURSIVE SumSeq(_)
SumSeq(s) == IF s = <<>> THEN 0 ELSE Head(s) + SumSeq(Tail(s))

RECURSIVE FilterNone(_)
FilterNone(s) ==
    IF s = <<>> THEN <<>>
    ELSE IF Head(s) = None THEN FilterNone(Tail(s))
         ELSE <<Head(s)[1]>> \o FilterNone(Tail(s))

-----------------------------------------------------------------------------
(* calculate_mean_and_stdv, misc.py:104-135                                *)

MaxLen == 3        \* longest values_list
MaxVal == 2        \* numbers are 0..MaxVal
MaxDecimals == 1   \* round_decimals is 0..MaxDecimals

StatsValues == {None} \cup {Num(v) : v \in 0..MaxVal}

StatsLists == UNION {[1..n -> StatsValues] : n \in 0..MaxLen}

\* misc.py:131: round(sum(filtered_list) / len(filtered_list), round_decimals),
\* scaled by 10^round_decimals.  With an int list the division floors first.
MeanScaled(filtered_list, is_float, decimals) ==
    LET s == SumSeq(filtered_list)
        n == Len(filtered_list)
        p == Pow10(decimals)
    IN  IF is_float THEN RoundHalfAway(s * p, n)
        ELSE IntDiv(s, n) * p

\* misc.py:132-133: the variance is taken around the rounded mean of line 131;
\* round(variance ** 0.5, round_decimals), scaled by 10^round_decimals.
StdDevScaled(filtered_list, mean_scaled, decimals) ==
    LET p == Pow10(decimals)
        n == Len(filtered_list)
        sq == [i \in 1..n |->
                 (filtered_list[i] * p - mean_scaled) * (filtered_list[i] * p - mean_scaled)]
    IN  RoundSqrt(SumSeq(sq), n)

\* The early return of misc.py:128 keyed on the unfiltered list: an all-None
\* list then reaches the division by len(filtered_list) = 0 and yields no pair.
calculate_mean_and_stdv_unfiltered_guard(list, is_float, decimals) ==
    IF list = <<>>
    THEN [mean |-> Rat(0, 1), std_dev |-> Rat(0, 1)]
    ELSE IF FilterNone(list) = <<>>
         THEN [mean |-> <<0, 0>>, std_dev |-> <<0, 0>>]
         ELSE LET m == MeanScaled(FilterNone(list), is_float, decimals)
              IN  [mean |-> Rat(m, Pow10(decimals)),
                   std_dev |-> Rat(StdDevScaled(FilterNone(list), m, decimals),
                                   Pow10(decimals))]

calculate_mean_and_stdv(list, is_float, decimals) ==
    LET filtered_list == FilterNone(list)
    IN  IF filtered_list = <<>>
        THEN [mean |-> Rat(0, 1), std_dev |-> Rat(0, 1)]
        ELSE LET m == MeanScaled(filtered_list, is_float, decimals)
             IN  [mean |-> Rat(m, Pow10(decimals)),
                  std_dev |-> Rat(StdDevScaled(filtered_list, m, decimals), Pow10(decimals))]

StatsInit ==
    /\ values_list \in StatsLists
    /\ float_values \in BOOLEAN
    /\ round_decimals \in 0..MaxDecimals
    /\ stats_pc = "call"
    /\ stats_ret = NoValue

StatsIdle ==
    /\ values_list = <<>>
    /\ float_values = FALSE
    /\ round_decimals = 0
    /\ stats_pc = "idle"
    /\ stats_ret = NoValue

CallMeanAndStdv ==
    /\ stats_pc = "call"
    /\ stats_pc' = "done"
    /\ stats_ret' = calculate_mean_and_stdv(values_list, float_values, round_decimals)
    /\ UNCHANGED <<values_list, float_values, round_decimals>>

    /\ UNCHANGED notStats

OnlyNone(list) == \A i \in 1..Len(list) : list[i] = None

\* C1: for an empty list and for a list of None entries only, whatever
\* round_decimals is, calculate_mean_and_stdv returns the pair (0, 0).
C1_ZeroPairForEmptyOrAllNone ==
    (stats_pc = "done" /\ OnlyNone(values_list))
        => (stats_ret.mean = <<0, 1>> /\ stats_ret.std_dev = <<0, 1>>)

\* A non-empty list of None entries with round_decimals > 0 has returned (0, 0).
C1_Witness ==
    /\ stats_pc = "done"
    /\ Len(values_list) >= 2
    /\ OnlyNone(values_list)
    /\ round_decimals > 0
    /\ stats_ret = [mean |-> <<0, 1>>, std_dev |-> <<0, 1>>]

\* The population statistics of the numbers xs, each rounded to `decimals`
\* only at the end: mean sum(x)/n, deviation sqrt(sum((x - sum(x)/n)^2)/n).
TextbookMean(xs, decimals) ==
    Rat(RoundHalfAway(SumSeq(xs) * Pow10(decimals), Len(xs)), Pow10(decimals))

TextbookStdDev(xs, decimals) ==
    LET n == Len(xs)
        s == SumSeq(xs)
        p == Pow10(decimals)
        sq == [i \in 1..n |-> (xs[i] * n - s) * (xs[i] * n - s)]
    IN  Rat(RoundSqrt(SumSeq(sq) * p * p, n * n * n), p)

\* C2: with at least one number in the list, the result is the textbook
\* population mean and standard deviation of the numbers (None dropped), the
\* deviation taken around the exact mean, both rounded only at the end.
C2_TextbookStatistics ==
    (stats_pc = "done" /\ ~OnlyNone(values_list))
        => /\ stats_ret.mean = TextbookMean(FilterNone(values_list), round_decimals)
           /\ stats_ret.std_dev = TextbookStdDev(FilterNone(values_list), round_decimals)

-----------------------------------------------------------------------------
(* elapsed_time_since, misc.py:62-83                                       *)

MaxHours == 1      \* elapsed hours are 0..MaxHours, and 100
EdgeMs == 6        \* milliseconds taken at either edge of a minute

ElapsedHours == (0..MaxHours) \cup {100}
ElapsedMinutes == {0, 1, 59}
\* Milliseconds within a minute.  A float that lies halfway between two
\* hundredths in decimal is not halfway in binary and is formatted up or down
\* depending on its representation, so no such value (ms % 10 = 5) is drawn.
ElapsedMs ==
    {ms \in (0..EdgeMs) \cup ((60000 - EdgeMs)..59999) \cup {9994, 9996, 30000} :
        ms % 10 # 5}
ElapsedSpans ==
    {h * 3600000 + m * 60000 + ms :
        h \in ElapsedHours, m \in ElapsedMinutes, ms \in ElapsedMs}
StartTimes == {-1500, 0, 250}
\* What time.time() may return at line 79 (no earlier than any start).
NowTimes == {250, 3661004}

\* "{:05.2f}".format(seconds) for seconds = ms/1000 in 0 <= ms < 60000:
\* rounded to two decimals, zero-filled to five characters.
FormatSeconds(ms) ==
    LET centi == IF ms % 10 > 5 THEN ms \div 10 + 1 ELSE ms \div 10
    IN  ZeroFill(NatStr(centi \div 100) \o <<".">> \o ZeroFill(NatStr(centi % 100), 2), 5)

\* misc.py:78-83.  `not end` is true for None and for 0.0 alike.
elapsed_time_since(start_ms, end_arg, now) ==
    LET end_ms == IF end_arg = None \/ end_arg = <<0>> THEN now ELSE end_arg[1]
        hours == (end_ms - start_ms) \div 3600000
        rem == (end_ms - start_ms) % 3600000
        minutes == rem \div 60000
        seconds == rem % 60000
    IN  ZeroFill(IntStr(hours), 2) \o <<":">> \o ZeroFill(IntStr(minutes), 2)
            \o <<":">> \o FormatSeconds(seconds)

ElapsedInit ==
    /\ start \in StartTimes
    /\ end \in {None} \cup {<<start + d>> : d \in ElapsedSpans}
    /\ elapsed_pc = "call"
    /\ elapsed_ret = NoValue

ElapsedIdle ==
    /\ start = 0
    /\ end = None
    /\ elapsed_pc = "idle"
    /\ elapsed_ret = NoValue

CallElapsedTimeSince ==
    /\ elapsed_pc = "call"
    /\ \E now \in NowTimes : elapsed_ret' = elapsed_time_since(start, end, now)
    /\ elapsed_pc' = "done"
    /\ UNCHANGED <<start, end>>
    /\ UNCHANGED notElapsed

\* str is HH:MM:SS.ss: at least two hour digits, two minute digits in 00..59,
\* seconds in 00.00..59.99, and it reads as span_ms rounded to 1/100 s.
EncodesSpan(str, span_ms) ==
    LET n == Len(str)
        hh == SubSeq(str, 1, n - 9)
        mm == SubSeq(str, n - 7, n - 6)
        ss == SubSeq(str, n - 4, n - 3)
        cc == SubSeq(str, n - 1, n)
    IN  /\ n >= 11
        /\ str[n - 8] = ":" /\ str[n - 5] = ":" /\ str[n - 2] = "."
        /\ AllDigits(hh) /\ AllDigits(mm) /\ AllDigits(ss) /\ AllDigits(cc)
        /\ StrNat(mm) <= 59
        /\ StrNat(ss) <= 59
        /\ Abs((StrNat(hh) * 3600 + StrNat(mm) * 60 + StrNat(ss)) * 1000
                 + StrNat(cc) * 10 - span_ms) <= 5

\* C3: called with an end that is not before start, elapsed_time_since
\* returns HH:MM:SS.ss for end - start, hours with at least two digits,
\* minutes in 00..59 and seconds in 00.00..59.99.
C3_ElapsedFormat ==
    (elapsed_pc = "done" /\ end # None /\ end[1] >= start)
        => EncodesSpan(elapsed_ret, end[1] - start)

-----------------------------------------------------------------------------
(* percentage, misc.py:86-101                                              *)

MaxPart == 7       \* part is -MaxPart..MaxPart
MaxWhole == 4      \* whole is -MaxWhole..MaxWhole

\* Line 101 without the float() conversions: Python 2 floors int / int.
percentage_int_division(p, w) == Rat(IntDiv(100 * p, w), 1)

\* misc.py:101: 100 * float(part) / float(whole), for whole # 0.
percentage(p, w) == Rat(100 * p, w)

PctInit ==
    /\ part \in -MaxPart..MaxPart
    /\ whole \in -MaxWhole..MaxWhole
    /\ pct_pc = "call"
    /\ pct_ret = NoValue

PctIdle ==
    /\ part = 0
    /\ whole = 1
    /\ pct_pc = "idle"
    /\ pct_ret = NoValue

CallPercentage ==
    /\ pct_pc = "call"
    /\ whole # 0
    /\ pct_ret' = percentage(part, whole)
    /\ pct_pc' = "done"
    /\ UNCHANGED <<part, whole>>
    /\ UNCHANGED notPct

\* float(part) / 0.0 raises ZeroDivisionError.
CallPercentageOfZero ==
    /\ pct_pc = "call"
    /\ whole = 0
    /\ pct_pc' = "raised"
    /\ UNCHANGED <<part, whole, pct_ret>>
    /\ UNCHANGED notPct

\* C4: for a whole other than zero, percentage returns exactly
\* 100 * part / whole: nothing is rounded or truncated, and two ints are not
\* integer-divided.
C4_PercentageExact ==
    (pct_pc = "done") => (pct_ret[2] > 0 /\ pct_ret[1] * whole = 100 * part * pct_ret[2])

\* percentage(1, 3) has returned 100/3, which no integer division yields.
C4_Witness ==
    pct_pc = "done" /\ part = 1 /\ whole = 3 /\ pct_ret = <<100, 3>>

-----------------------------------------------------------------------------
(* parse_url, omerotools.py:30-115                                         *)

MaxIds == 3        \* omero_str holds 1..MaxIds ids
MaxId == 2         \* the ids are 1..MaxId, and 12

ImageMarker == <<"i", "m", "a", "g", "e", "-">>
DatasetMarker == <<"d", "a", "t", "a", "s", "e", "t", "-">>
\* What OMERO.web puts in front of the object list of a URL.
ShowPrefix == <<"?", "s", "h", "o", "w", "=">>

OmeroIds == (1..MaxId) \cup {12}
OmeroIdLists == UNION {[1..n -> OmeroIds] : n \in 1..MaxIds}
OmeroForms ==
    {"ids", "ids_spaced", "image_url", "image_url_quoted", "dataset_url",
     "dataset_url_quoted", "mixed_url"}

RECURSIVE Join(_, _)
Join(strs, sep) ==
    IF strs = <<>> THEN <<>>
    ELSE IF Len(strs) = 1 THEN Head(strs)
         ELSE Head(strs) \o sep \o Join(Tail(strs), sep)

\* The strings parse_url is written for (docstring, lines 33-37): ids
\* separated by commas, or an OMERO.web URL listing images or datasets.
OmeroStr(form, ids) ==
    LET marked(m) == [i \in 1..Len(ids) |-> m \o NatStr(ids[i])]
    IN  CASE form = "ids" -> Join([i \in 1..Len(ids) |-> NatStr(ids[i])], <<",">>)
          [] form = "ids_spaced" ->
                Join([i \in 1..Len(ids) |-> NatStr(ids[i])], <<",", " ">>)
          [] form = "image_url" -> ShowPrefix \o Join(marked(ImageMarker), <<"|">>)
          [] form = "image_url_quoted" ->
                ShowPrefix \o Join(marked(ImageMarker), <<"%", "7", "C">>)
          [] form = "dataset_url" -> ShowPrefix \o Join(marked(DatasetMarker), <<"|">>)
          [] form = "dataset_url_quoted" ->
                ShowPrefix \o Join(marked(DatasetMarker), <<"%", "7", "C">>)
          [] form = "mixed_url" ->
                ShowPrefix \o Join(<<DatasetMarker \o NatStr(ids[1])>>
                                       \o Tail(marked(ImageMarker)), <<"|">>)

\* java.lang.Long(str) accepts a non-empty string of digits and throws
\* NumberFormatException otherwise.
LongOk(str) == str # <<>> /\ AllDigits(str)
Long(str) == StrNat(str)

\* The longest prefix of strs that Long() accepts, converted.
RECURSIVE Longs(_)
Longs(strs) ==
    IF strs = <<>> \/ ~LongOk(Head(strs)) THEN <<>>
    ELSE <<Long(Head(strs))>> \o Longs(Tail(strs))

\* The server: DatasetWrapper.getImages() of dataset d.
DatasetImages(d) == <<100 + d, 200 + d>>

RECURSIVE AllDatasetImages(_)
AllDatasetImages(ds) ==
    IF ds = <<>> THEN <<>> ELSE DatasetImages(Head(ds)) \o AllDatasetImages(Tail(ds))

\* Lines 75, 79, 86, 91: part.split("dataset-")[1].split("/")[0]
DatasetIdStr(piece) == Head(Split(Split(piece, DatasetMarker)[2], <<"/">>))

\* Line 105 leaving the "|" separators in the ids.
ImageIdStrs_keep_separator(str) ==
    IF Contains(str, ImageMarker)
    THEN LET pieces == Tail(Split(str, ImageMarker))
         IN  [i \in 1..Len(pieces) |-> Head(Split(pieces[i], <<"%">>))]
    ELSE Split(str, <<",">>)

\* Lines 103-105; line 113 for a string without "image-".
ImageIdStrs(str) ==
    IF Contains(str, ImageMarker)
    THEN LET pieces == Tail(Split(str, ImageMarker))
         IN  [i \in 1..Len(pieces) |-> Remove(Head(Split(pieces[i], <<"%">>)), <<"|">>)]
    ELSE Split(str, <<",">>)

\* The whole function: what it returns, whether it raised, and the calls it
\* made on the client up to there.
parse_url(str) ==
    IF Contains(str, DatasetMarker)
    THEN \* lines 65-99
         LET pieces == IF Contains(str, <<"|">>)
                       THEN SelectSeq(Split(str, <<"|">>),
                                      LAMBDA q : Contains(q, DatasetMarker))
                       ELSE <<str>>
             id_strs == [i \in 1..Len(pieces) |-> DatasetIdStr(pieces[i])]
             dataset_ids == Longs(id_strs)
             ok == Len(dataset_ids) = Len(id_strs)
         IN  [raised |-> ~ok,
              ret |-> IF ok THEN AllDatasetImages(dataset_ids) ELSE NoValue,
              getImage |-> <<>>,
              \* once per piece (lines 74-76 or 85-87), then once more per
              \* dataset id (line 96)
              getDataset |-> IF ok THEN dataset_ids \o dataset_ids ELSE dataset_ids]
    ELSE \* lines 102-115
         LET id_strs == ImageIdStrs(str)
             image_ids == Longs(id_strs)
             ok == Len(image_ids) = Len(id_strs)
         IN  [raised |-> ~ok,
              ret |-> IF ok THEN image_ids ELSE NoValue,
              getImage |-> image_ids,
              getDataset |-> <<>>]

ParseInit ==
    /\ omero_form \in OmeroForms
    /\ omero_ids \in OmeroIdLists
    /\ omero_str = OmeroStr(omero_form, omero_ids)
    /\ parse_pc = "call"
    /\ parse_ret = NoValue
    /\ getImage_calls = <<>>
    /\ getDataset_calls = <<>>

ParseIdle ==
    /\ omero_form = "ids"
    /\ omero_ids = <<>>
    /\ omero_str = <<>>
    /\ parse_pc = "idle"
    /\ parse_ret = NoValue
    /\ getImage_calls = <<>>
    /\ getDataset_calls = <<>>

CallParseUrl ==
    /\ parse_pc = "call"
    /\ LET r == parse_url(omero_str)
       IN  /\ parse_pc' = IF r.raised THEN "raised" ELSE "done"
           /\ parse_ret' = r.ret
           /\ getImage_calls' = r.getImage
           /\ getDataset_calls' = r.getDataset
    /\ UNCHANGED <<omero_form, omero_ids, omero_str>>
    /\ UNCHANGED notParse

\* C5: for a string without "dataset-" that lists the image ids i1..in as
\* image-i1|...|image-in, parse_url asks client.getImage for the same ids, in
\* the same order and as often, as it does for the string "i1,...,in": in
\* both cases for exactly i1..in.
C5_ImageUrlLikeCommaList ==
    (parse_pc # "call" /\ omero_form \in {"ids", "image_url"})
        => (parse_pc = "done" /\ getImage_calls = omero_ids)

\* The URL ?show=image-12|image-1|image-12 has been parsed.
C5_Witness ==
    /\ parse_pc = "done"
    /\ omero_form = "image_url"
    /\ omero_ids = <<12, 1, 12>>
    /\ getImage_calls = <<12, 1, 12>>

\* The digits a string starts with.
RECURSIVE LeadingDigits(_)
LeadingDigits(str) ==
    IF str = <<>> \/ ~AllDigits(<<Head(str)>>) THEN <<>>
    ELSE <<Head(str)>> \o LeadingDigits(Tail(str))

\* The datasets a string refers to: the number after each "dataset-", in
\* order of appearance.
DatasetRefs(str) ==
    LET pieces == Tail(Split(str, DatasetMarker))
    IN  [i \in 1..Len(pieces) |-> StrNat(LeadingDigits(pieces[i]))]

\* C16: for a string containing "dataset-", parse_url returns the images of
\* every dataset the string refers to, dataset after dataset in order of
\* appearance and each reference's images once, and makes no client.getImage
\* call, "image-" markers in the string notwithstanding.
C16_AllDatasetsNoGetImage ==
    (parse_pc # "call" /\ Contains(omero_str, DatasetMarker))
        => /\ parse_pc = "done"
           /\ parse_ret = AllDatasetImages(DatasetRefs(omero_str))
           /\ getImage_calls = <<>>

-----------------------------------------------------------------------------
(* send_notification_email, misc.py:195-278                                *)

MaxStr == 2        \* longest preference value and recipient

\* Strings of blanks and the letter a.
MailStrings == UNION {[1..n -> {" ", "a"}] : n \in 0..MaxStr}

\* How a call on smtplib can end.  smtplib.SMTPException is what line 276
\* catches; a server that cannot be reached makes smtplib.SMTP() raise
\* socket.error, which is no SMTPException.
SmtpOutcomes == {"ok", "SMTPException", "socket.error"}

\* Lines 249-269: the message handed to sendmail.
MailMessage(sender, to, subj, msg) ==
    [From |-> sender, To |-> to,
     Subject |-> IF subj = "" THEN "Your {job_name} job has finished" ELSE subj,
     Body |-> IF msg = "" THEN "Your workflow '{filename}' has been processed" ELSE msg]

\* Lines 244-247 left out: nothing checks the recipient.
send_notification_email_any_to(sender_pref, server_pref, to, subj, msg, connect, send) ==
    LET sender == Strip(sender_pref)
        server == Strip(server_pref)
        SMTP == <<[call |-> "SMTP", server |-> server]>>
        sendmail == <<[call |-> "sendmail", sender |-> sender, to |-> to,
                       msg |-> MailMessage(sender, to, subj, msg)]>>
    IN  IF sender = <<>> \/ server = <<>>
        THEN [pc |-> "done", smtp |-> <<>>, failure |-> "none", log |-> <<"info">>]
        ELSE IF connect = "ok" /\ send = "ok"
        THEN [pc |-> "done", smtp |-> SMTP \o sendmail, failure |-> "none",
              log |-> <<"debug", "debug">>]
        ELSE [pc |-> "done", smtp |-> SMTP, failure |-> "SMTPException",
              log |-> <<"debug", "warning">>]

send_notification_email(sender_pref, server_pref, to, subj, msg, connect, send) ==
    LET sender == Strip(sender_pref)       \* line 231
        server == Strip(server_pref)       \* line 232
        SMTP == <<[call |-> "SMTP", server |-> server]>>
        sendmail == <<[call |-> "sendmail", sender |-> sender, to |-> to,
                       msg |-> MailMessage(sender, to, subj, msg)]>>
    IN  IF sender = <<>>                   \* lines 235-237
        THEN [pc |-> "done", smtp |-> <<>>, failure |-> "none", log |-> <<"info">>]
        ELSE IF server = <<>>              \* lines 238-240
        THEN [pc |-> "done", smtp |-> <<>>, failure |-> "none", log |-> <<"info">>]
        ELSE IF Strip(to) = <<>>           \* lines 242-247
        THEN [pc |-> "done", smtp |-> <<>>, failure |-> "none",
              log |-> <<"debug", "info">>]
        ELSE IF connect # "ok"             \* line 273 raises
        THEN [pc |-> IF connect = "SMTPException" THEN "done" ELSE "raised",
              smtp |-> SMTP, failure |-> connect,
              log |-> IF connect = "SMTPException" THEN <<"debug", "warning">>
                      ELSE <<"debug">>]
        ELSE IF send # "ok"                \* line 274 raises
        THEN [pc |-> IF send = "SMTPException" THEN "done" ELSE "raised",
              smtp |-> SMTP \o sendmail, failure |-> send,
              log |-> IF send = "SMTPException" THEN <<"debug", "warning">>
                      ELSE <<"debug">>]
        ELSE [pc |-> "done", smtp |-> SMTP \o sendmail, failure |-> "none",
              log |-> <<"debug", "debug">>]   \* line 275

MailInit ==
    /\ pref_sender \in MailStrings
    /\ pref_server \in MailStrings
    /\ recipient \in MailStrings
    /\ subject \in {"", "Done"}
    /\ message \in {"", "See the log."}
    /\ mail_pc = "call"
    /\ smtp_calls = <<>>
    /\ smtp_failure = "none"
    /\ mail_log = <<>>

MailIdle ==
    /\ pref_sender = <<>>
    /\ pref_server = <<>>
    /\ recipient = <<>>
    /\ subject = ""
    /\ message = ""
    /\ mail_pc = "idle"
    /\ smtp_calls = <<>>
    /\ smtp_failure = "none"
    /\ mail_log = <<>>

CallSendNotificationEmail ==
    /\ mail_pc = "call"
    /\ \E connect \in SmtpOutcomes, send \in SmtpOutcomes :
          LET r == send_notification_email(pref_sender, pref_server, recipient,
                                           subject, message, connect, send)
          IN  /\ mail_pc' = r.pc
              /\ smtp_calls' = r.smtp
              /\ smtp_failure' = r.failure
              /\ mail_log' = r.log
    /\ UNCHANGED <<pref_sender, pref_server, recipient, subject, message>>
    /\ UNCHANGED notMail

Blank(str) == \A i \in 1..Len(str) : str[i] = " "

\* C6: send_notification_email touches smtplib only if the sender
\* preference, the smtpserver preference and the recipient all hold more than
\* blanks; if one of them is empty or blank it returns normally without
\* having called smtplib.
C6_NoSmtpUnlessConfigured ==
    (mail_pc # "call")
        => /\ (smtp_calls # <<>>)
                => (~Blank(pref_sender) /\ ~Blank(pref_server) /\ ~Blank(recipient))
           /\ (Blank(pref_sender) \/ Blank(pref_server) \/ Blank(recipient))
                => (mail_pc = "done" /\ smtp_calls = <<>>)

\* With both preferences set and a blank recipient the call has returned
\* without SMTP activity.
C6_Witness ==
    /\ mail_pc = "done"
    /\ ~Blank(pref_sender) /\ ~Blank(pref_server)
    /\ recipient = <<" ">>
    /\ smtp_calls = <<>>

SendmailCalls == SelectSeq(smtp_calls, LAMBDA c : c.call = "sendmail")

\* C7: when connecting to the server or sending the message fails, a
\* warning is logged, the function returns normally, and sendmail has been
\* invoked at most once.
C7_DeliveryFailureIsLogged ==
    (mail_pc # "call" /\ smtp_failure # "none")
        => /\ mail_pc = "done"
           /\ \E i \in 1..Len(mail_log) : mail_log[i] = "warning"
           /\ Len(SendmailCalls) <= 1

-----------------------------------------------------------------------------
(* find_focus, misc.py:138-192                                             *)

MaxFrames == 2     \* stacks have 1..MaxFrames timepoints

\* Slices are 2 x 1 pixels of an 8 or 16 bit image (ints): flat, two with
\* contrast, and black.
PixelArrays == {<<4, 4>>, <<2, 6>>, <<0, 8>>, <<0, 0>>}
SliceCounts == {1, 2}
ChannelCounts == {1, 2}

\* Lines 180-186 on one pixel array: the score of the slice.  The pixels are
\* ints, so both divisions floor.  Only called with a mean other than 0.
SliceMean(pix_array) == IntDiv(SumSeq(pix_array), Len(pix_array))

SliceScore(pix_array, dims) ==
    LET mean == SliceMean(pix_array)
        sq == [i \in 1..Len(pix_array) |-> (pix_array[i] - mean) * (pix_array[i] - mean)]
    IN  IntDiv(SumSeq(sq), dims[1] * dims[2] * mean)

\* Lines 178-190 from slice current_z on: the z loop of one timepoint.
RECURSIVE ScanSlices(_, _, _, _, _)
ScanSlices(slices, dims, current_z, focused_slice, norm_var) ==
    IF current_z > dims[4]
    THEN [raised |-> FALSE, focused_slice |-> focused_slice, z |-> dims[4]]
    ELSE IF SliceMean(slices[current_z]) = 0
    THEN \* line 186 divides by width * height * 0
         [raised |-> TRUE, focused_slice |-> focused_slice, z |-> current_z]
    ELSE LET var == SliceScore(slices[current_z], dims)
         IN  IF var > norm_var
             THEN ScanSlices(slices, dims, current_z + 1, current_z, var)
             ELSE ScanSlices(slices, dims, current_z + 1, focused_slice, norm_var)

\* Lines 173-192 from timepoint plane on: focused_slice and norm_var start
\* again at 0 for every timepoint (lines 174-175).
RECURSIVE ScanPlanes(_, _, _)
ScanPlanes(pixels, dims, plane) ==
    LET r == ScanSlices(pixels[plane], dims, 1, 0, 0)
    IN  IF r.raised
        THEN [pc |-> "raised", ret |-> NoValue, t |-> plane, z |-> r.z,
              reads |-> (plane - 1) * dims[4] + r.z]
        ELSE IF plane = dims[5]
        THEN [pc |-> "done", ret |-> r.focused_slice, t |-> plane, z |-> r.z,
              reads |-> plane * dims[4]]
        ELSE ScanPlanes(pixels, dims, plane + 1)

\* The channel check of lines 169-170 left out.
find_focus_any_channels(dims, pixels, t, z) == ScanPlanes(pixels, dims, 1)

find_focus(dims, pixels, t, z) ==
    IF dims[3] # 1
    THEN [pc |-> "exit", ret |-> NoValue, t |-> t, z |-> z, reads |-> 0]
    ELSE ScanPlanes(pixels, dims, 1)

FocusInit ==
    /\ \E c \in ChannelCounts, nz \in SliceCounts, nt \in 1..MaxFrames :
          /\ imp_dimensions = <<2, 1, c, nz, nt>>
          /\ imp_pixels \in [1..nt -> [1..nz -> PixelArrays]]
          /\ imp_t \in 1..nt
          /\ imp_z \in 1..nz
    /\ pixel_reads = 0
    /\ focus_pc = "call"
    /\ focus_ret = NoValue

FocusIdle ==
    /\ imp_dimensions = <<2, 1, 1, 1, 1>>
    /\ imp_pixels = <<>>
    /\ imp_t = 1
    /\ imp_z = 1
    /\ pixel_reads = 0
    /\ focus_pc = "idle"
    /\ focus_ret = NoValue

CallFindFocus ==
    /\ focus_pc = "call"
    /\ LET r == find_focus(imp_dimensions, imp_pixels, imp_t, imp_z)
       IN  /\ focus_pc' = r.pc
           /\ focus_ret' = r.ret
           /\ imp_t' = r.t
           /\ imp_z' = r.z
           /\ pixel_reads' = r.reads
    /\ UNCHANGED <<imp_dimensions, imp_pixels>>
    /\ UNCHANGED notFocus

\* C8: on an image whose channel count is not 1, find_focus ends in
\* SystemExit, returns no slice number, and has neither moved the image's
\* timepoint or z position nor read pixel data.
C8_MultiChannelExitsUntouched ==
    [][(focus_pc = "call" /\ imp_dimensions[3] # 1)
         => (focus_pc' = "exit" /\ focus_ret' = NoValue
             /\ imp_t' = imp_t /\ imp_z' = imp_z /\ pixel_reads' = 0)]_vars

\* A two-channel stack left standing at timepoint 2, slice 2 after the exit.
C8_Witness ==
    /\ focus_pc = "exit"
    /\ imp_dimensions[3] = 2
    /\ imp_t = 2 /\ imp_z = 2
    /\ pixel_reads = 0

\* The slices of the stack as <<t, z>>, and the highest score among them.
StackSlices == (1..imp_dimensions[5]) \X (1..imp_dimensions[4])
ScoreAt(tz) == SliceScore(imp_pixels[tz[1]][tz[2]], imp_dimensions)
IsBestOfStack(z) ==
    \E t \in 1..imp_dimensions[5] :
        \A tz \in StackSlices : ScoreAt(<<t, z>>) >= ScoreAt(tz)

\* C9: for a single-channel stack find_focus returns the z index of the
\* slice with the highest score among all z planes and all timepoints.  (The
\* stack without any slice scoring above 0, for which 0 is returned, is left
\* aside here.)
C9_FocusIsBestOfAllTimepoints ==
    (focus_pc = "done" /\ \E tz \in StackSlices : ScoreAt(tz) > 0)
        => (focus_ret \in 1..imp_dimensions[4] /\ IsBestOfStack(focus_ret))

-----------------------------------------------------------------------------
(* write_ordereddict_to_csv, misc.py:470-523                               *)

MaxCalls == 3      \* calls made on out_file
MaxRows == 1       \* longest content list

\* The key lists of the OrderedDicts, and the dicts, each written as the
\* tuple of its values in key order.
CsvKeys == {<<"id">>, <<"id", "name">>}
CsvDicts(keys) ==
    IF keys = <<"id">> THEN {<<"1">>, <<"2">>} ELSE {<<"1", "A">>, <<"2", "B">>}

\* A content list: dicts of the same keys, or the empty list.
CsvContents ==
    {[keys |-> <<>>, rows |-> <<>>]}
        \cup UNION {{[keys |-> k, rows |-> r] :
                        r \in UNION {[1..n -> CsvDicts(k)] : n \in 1..MaxRows}} :
                    k \in CsvKeys}

\* Both branches writing the header.
write_ordereddict_to_csv_always_header(exists, rows, content) ==
    IF content.rows = <<>>
    THEN [raised |-> TRUE, exists |-> TRUE, rows |-> IF exists THEN rows ELSE <<>>]
    ELSE [raised |-> FALSE, exists |-> TRUE,
          rows |-> (IF exists THEN rows ELSE <<>>) \o <<content.keys>> \o content.rows]

\* misc.py:513-523 on the file (exists, rows).  content[0] of an empty list
\* raises IndexError after open() has created or opened the file.
write_ordereddict_to_csv(exists, rows, content) ==
    IF ~exists
    THEN \* lines 515-518: open(out_file, "wb"), header, rows
         IF content.rows = <<>>
         THEN [raised |-> TRUE, exists |-> TRUE, rows |-> <<>>]
         ELSE [raised |-> FALSE, exists |-> TRUE,
               rows |-> <<content.keys>> \o content.rows]
    ELSE \* lines 521-523: open(out_file, "ab"), rows
         IF content.rows = <<>>
         THEN [raised |-> TRUE, exists |-> TRUE, rows |-> rows]
         ELSE [raised |-> FALSE, exists |-> TRUE, rows |-> rows \o content.rows]

CsvInit ==
    /\ csv_exists \in BOOLEAN
    /\ csv_rows \in IF csv_exists THEN {<<>>, <<<<"id">>, <<"0">>>>} ELSE {<<>>}
    /\ csv_existed = csv_exists
    /\ csv_pc = "ready"
    /\ csv_calls = 0
    /\ csv_failed = FALSE
    /\ csv_keys = {}
    /\ csv_written = <<>>

CsvIdle ==
    /\ csv_exists = FALSE
    /\ csv_rows = <<>>
    /\ csv_existed = FALSE
    /\ csv_pc = "idle"
    /\ csv_calls = 0
    /\ csv_failed = FALSE
    /\ csv_keys = {}
    /\ csv_written = <<>>

CallWriteCsv ==
    /\ csv_pc # "idle"
    /\ csv_calls < MaxCalls
    /\ \E content \in CsvContents :
          LET r == write_ordereddict_to_csv(csv_exists, csv_rows, content)
          IN  /\ csv_exists' = r.exists
              /\ csv_rows' = r.rows
              /\ csv_pc' = IF r.raised THEN "raised" ELSE "done"
              /\ csv_failed' = (csv_failed \/ r.raised)
              /\ csv_keys' = IF r.raised THEN csv_keys ELSE csv_keys \cup {content.keys}
              /\ csv_written' = IF r.raised THEN csv_written
                                 ELSE csv_written \o content.rows
    /\ csv_calls' = csv_calls + 1
    /\ UNCHANGED csv_existed
    /\ UNCHANGED notCsv

\* C10: after calls that all returned, all with the same keys, on an
\* out_file that did not exist before, the file is one header row followed
\* by the rows of all calls in call order.
C10_OneHeaderThenAllRows ==
    (csv_calls > 0 /\ ~csv_existed /\ ~csv_failed /\ Cardinality(csv_keys) = 1)
        => /\ csv_exists
           /\ \A k \in csv_keys : csv_rows = <<k>> \o csv_written

\* Three calls with the keys (id, name) have returned.
C10_Witness ==
    /\ csv_calls = 3 /\ ~csv_existed /\ ~csv_failed
    /\ csv_keys = {<<"id", "name">>}
    /\ csv_rows = <<<<"id", "name">>, <<"1", "A">>, <<"2", "B">>, <<"1", "A">>>>

-----------------------------------------------------------------------------
(* save_image_in_format, misc.py:526-634                                   *)

MaxChannels == 3   \* images have 1..MaxChannels channels

SaveFormats == {"ImageJ-TIF", "ICS-1", "ICS-2", "OME-TIFF", "CellH5", "BMP"}

\* Lines 585-591.
out_ext(format) ==
    CASE format = "ImageJ-TIF" -> <<".", "t", "i", "f">>
      [] format = "ICS-1" -> <<".", "i", "d", "s">>
      [] format = "ICS-2" -> <<".", "i", "c", "s">>
      [] format = "OME-TIFF" -> <<".", "o", "m", "e", ".", "t", "i", "f">>
      [] format = "CellH5" -> <<".", "c", "h", "5">>
      [] format = "BMP" -> <<".", "b", "m", "p">>

\* imp.getShortTitle()
ShortTitle == <<"i", "m", "g">>

\* os.path.join(path, name): a path is the sequence of its components.
PathJoin(path, name) == Append(path, name)

\* Lines 596-612: the directory of the image at position index of imp_to_use.
dir_to_save(dir, split, index) ==
    IF split THEN PathJoin(dir, <<"C">> \o NatStr(index)) ELSE dir

\* Lines 615-632 for one image: the saver called, where it writes, and the
\* directory created first (none for bf.export).
SaveOne(format, dir, ser, pad, split, index) ==
    LET basename == ShortTitle
        out_path == PathJoin(dir_to_save(dir, split, index),
                             basename \o <<"_", "s", "e", "r", "i", "e", "s", "_">>
                                 \o ZeroFill(NatStr(ser), pad))
    IN  IF format = "ImageJ-TIF"
        THEN [saver |-> "IJ.saveAs", channel |-> index,
              target |-> SubSeq(out_path, 1, Len(out_path) - 1)
                            \o <<out_path[Len(out_path)] \o <<".", "t", "i", "f">>>>,
              created |-> <<dir_to_save(dir, split, index)>>]
        ELSE IF format = "BMP"
        THEN \* lines 627-629: the folder is joined to out_dir
             [saver |-> "StackWriter.save", channel |-> index,
              target |-> PathJoin(dir, basename),
              created |-> <<PathJoin(dir, basename)>>]
        ELSE [saver |-> "bf.export", channel |-> index,
              target |-> SubSeq(out_path, 1, Len(out_path) - 1)
                            \o <<out_path[Len(out_path)] \o out_ext(format)>>,
              created |-> <<>>]

\* The whole function: one SaveOne per entry of imp_to_use.
save_image_in_format(channels, format, dir, ser, pad, split) ==
    LET n == IF split THEN channels ELSE 1
        one(i) == SaveOne(format, dir, ser, pad, split, i)
    IN  [calls |-> [i \in 1..n |-> [saver |-> one(i).saver, channel |-> one(i).channel,
                                      target |-> one(i).target]],
         created |-> Concat([i \in 1..n |-> one(i).created])]

SaveInit ==
    /\ save_format \in SaveFormats
    /\ imp_channels \in 1..MaxChannels
    /\ out_dir \in {<<<<"o", "u", "t">>>>, <<<<"o", "u", "t">>, <<"r", "u", "n">>>>}
    /\ series \in {1, 12}
    /\ pad_number \in {1, 3}
    /\ split_channels \in BOOLEAN
    /\ save_pc = "call"
    /\ save_calls = <<>>
    /\ dirs_created = <<>>

SaveIdle ==
    /\ save_format = "ImageJ-TIF"
    /\ imp_channels = 1
    /\ out_dir = <<>>
    /\ series = 0
    /\ pad_number = 0
    /\ split_channels = FALSE
    /\ save_pc = "idle"
    /\ save_calls = <<>>
    /\ dirs_created = <<>>

CallSaveImageInFormat ==
    /\ save_pc = "call"
    /\ LET r == save_image_in_format(imp_channels, save_format, out_dir, series,
                                     pad_number, split_channels)
       IN  /\ save_calls' = r.calls
           /\ dirs_created' = r.created
    /\ save_pc' = "done"
    /\ UNCHANGED <<save_format, imp_channels, out_dir, series, pad_number, split_channels>>
    /\ UNCHANGED notSave

IsPathPrefix(dir, path) == Len(dir) <= Len(path) /\ SubSeq(path, 1, Len(dir)) = dir

\* C11: with split_channels, whatever the format, an image of N channels is
\* saved as N outputs, the output of channel k inside out_dir/C<k>, and no
\* two channels are written to the same location.
C11_ChannelsSavedApart ==
    (save_pc = "done" /\ split_channels)
        => /\ Len(save_calls) = imp_channels
           /\ \A k \in 1..Len(save_calls) :
                 /\ save_calls[k].channel = k
                 /\ IsPathPrefix(PathJoin(out_dir, <<"C">> \o NatStr(k)),
                                 save_calls[k].target)
           /\ \A j, k \in 1..Len(save_calls) :
                 j # k => save_calls[j].target # save_calls[k].target

-----------------------------------------------------------------------------
(* locate_latest_imaris, misc.py:637-669                                   *)

\* Lines 655-658: the default entries of paths_to_check.
ConverterCheck ==
    <<"C", ":", "\\", "P", "r", "o", "g", "r", "a", "m", " ", "F", "i",
      "l", "e", "s", "\\", "B", "i", "t", "p", "l", "a", "n", "e", "\\",
      "I", "m", "a", "r", "i", "s", "F", "i", "l", "e", "C", "o", "n", "v",
      "e", "r", "t", "e", "r", " ">>

ImarisCheck ==
    <<"C", ":", "\\", "P", "r", "o", "g", "r", "a", "m", " ", "F", "i",
      "l", "e", "s", "\\", "B", "i", "t", "p", "l", "a", "n", "e", "\\",
      "I", "m", "a", "r", "i", "s", " ">>

DefaultChecks == <<ConverterCheck, ImarisCheck>>

\* The versions an installation folder may carry, and the folder names.
Versions == {<<9, 9, 1>>, <<9, 10, 0>>, <<10, 0, 0>>}
VersionStr(v) == Join([i \in 1..Len(v) |-> NatStr(v[i])], <<".">>)
Folders(check) == {check \o VersionStr(v) : v \in Versions}

\* glob.glob(check + "*"): the folders whose name starts with check, in the
\* order the file system lists them.
GlobHits(check, disk) == {x \in disk : StartsAt(x, check, 1)}
Orderings(set) ==
    {f \in [1..Cardinality(set) -> set] : \A i, j \in 1..Cardinality(set) :
                                              i # j => f[i] # f[j]}

\* Line 666: float(x.replace(check, "").replace(".", "")), which raises
\* ValueError unless digits remain.
SortKeyStr(x, check) == Remove(Remove(x, check), <<".">>)
SortKeyOk(x, check) == SortKeyStr(x, check) # <<>> /\ AllDigits(SortKeyStr(x, check))
SortKey(x, check) == StrNat(SortKeyStr(x, check))

\* sorted(hits, key=...): stable, ascending.
RECURSIVE InsertByKey(_, _, _)
InsertByKey(x, xs, check) ==
    IF xs = <<>> THEN <<x>>
    ELSE IF SortKey(x, check) < SortKey(Head(xs), check) THEN <<x>> \o xs
         ELSE <<Head(xs)>> \o InsertByKey(x, Tail(xs), check)

RECURSIVE SortedByKey(_, _)
SortedByKey(hits, check) ==
    IF hits = <<>> THEN <<>>
    ELSE InsertByKey(hits[Len(hits)], SortedByKey(SubSeq(hits, 1, Len(hits) - 1), check),
                     check)

\* The hits of the first entry put last in imaris_paths.
locate_latest_imaris_first_entry_last(checks_arg, globbed) ==
    LET checks == IF checks_arg = <<>> THEN DefaultChecks ELSE checks_arg
        ok == \A i \in 1..Len(checks) : \A j \in 1..Len(globbed[i]) :
                 SortKeyOk(globbed[i][j], checks[i])
        ranked == [i \in 1..Len(checks) |-> SortedByKey(globbed[i], checks[i])]
        imaris_paths == <<<<>>>> \o Concat(Tail(ranked)) \o Head(ranked)
    IN  IF ok
        THEN [pc |-> "done", sorted |-> ranked, ret |-> imaris_paths[Len(imaris_paths)]]
        ELSE [pc |-> "raised", sorted |-> <<>>, ret |-> NoValue]

\* Lines 654-669, given for every entry the order in which glob lists its
\* hits: the sorted hits per entry, and the last element of imaris_paths.
locate_latest_imaris(checks_arg, globbed) ==
    LET checks == IF checks_arg = <<>> THEN DefaultChecks ELSE checks_arg
        ok == \A i \in 1..Len(checks) : \A j \in 1..Len(globbed[i]) :
                 SortKeyOk(globbed[i][j], checks[i])
        ranked == [i \in 1..Len(checks) |-> SortedByKey(globbed[i], checks[i])]
        imaris_paths == <<<<>>>> \o Concat(ranked)
    IN  IF ok
        THEN [pc |-> "done", sorted |-> ranked, ret |-> imaris_paths[Len(imaris_paths)]]
        ELSE [pc |-> "raised", sorted |-> <<>>, ret |-> NoValue]

LocateInit ==
    /\ installed \in SUBSET (Folders(ConverterCheck) \cup Folders(ImarisCheck))
    /\ paths_to_check \in
          {<<>>, <<ImarisCheck>>, <<ImarisCheck, ConverterCheck>>,
           <<SubSeq(ImarisCheck, 1, Len(ImarisCheck) - 1)>>}
    /\ locate_pc = "call"
    /\ sorted_hits = <<>>
    /\ locate_ret = NoValue

LocateIdle ==
    /\ installed = {}
    /\ paths_to_check = <<>>
    /\ locate_pc = "idle"
    /\ sorted_hits = <<>>
    /\ locate_ret = NoValue

CallLocateLatestImaris ==
    /\ locate_pc = "call"
    /\ LET checks == IF paths_to_check = <<>> THEN DefaultChecks ELSE paths_to_check
       IN  \E globbed \in [1..Len(checks) -> UNION {Orderings(GlobHits(checks[i], installed)) :
                                                      i \in 1..Len(checks)}] :
              /\ \A i \in 1..Len(checks) :
                    globbed[i] \in Orderings(GlobHits(checks[i], installed))
              /\ LET r == locate_latest_imaris(paths_to_check, globbed)
                 IN  /\ locate_pc' = r.pc
                     /\ sorted_hits' = r.sorted
                     /\ locate_ret' = r.ret
    /\ UNCHANGED <<installed, paths_to_check>>
    /\ UNCHANGED notLocate

\* The version of a folder: its name without check, read as dotted numbers.
VersionOf(x, check) ==
    LET parts == Split(Remove(x, check), <<".">>)
    IN  [i \in 1..Len(parts) |-> StrNat(parts[i])]

\* v is the same as or older than w, comparing component by component.
RECURSIVE VersionLeq(_, _)
VersionLeq(v, w) ==
    IF v = <<>> THEN TRUE
    ELSE IF w = <<>> THEN FALSE
    ELSE IF Head(v) # Head(w) THEN Head(v) < Head(w)
    ELSE VersionLeq(Tail(v), Tail(w))

CheckedPaths == IF paths_to_check = <<>> THEN DefaultChecks ELSE paths_to_check

\* C12: among the folders matching one entry of paths_to_check, the folder
\* with the most recent version, compared as dotted numbers, is ranked last.
C12_LatestVersionRankedLast ==
    (locate_pc = "done")
        => \A i \in 1..Len(sorted_hits) :
              \A j \in 1..Len(sorted_hits[i]) :
                 VersionLeq(VersionOf(sorted_hits[i][j], CheckedPaths[i]),
                            VersionOf(sorted_hits[i][Len(sorted_hits[i])], CheckedPaths[i]))

\* C13: locate_latest_imaris returns the empty string when no entry of
\* paths_to_check matches a folder; with the default locations and both an
\* ImarisFileConverter and an Imaris installation on disk it returns an
\* Imaris folder, whatever the versions of the ImarisFileConverter folders.
C13_EmptyOrImarisFirst ==
    (locate_pc # "call")
        => /\ (\A i \in 1..Len(CheckedPaths) : GlobHits(CheckedPaths[i], installed) = {})
                => (locate_pc = "done" /\ locate_ret = <<>>)
           /\ (/\ paths_to_check = <<>>
               /\ GlobHits(ConverterCheck, installed) # {}
               /\ GlobHits(ImarisCheck, installed) # {})
                => /\ locate_pc = "done"
                   /\ locate_ret \in installed
                   /\ StartsAt(locate_ret, ImarisCheck, 1)

\* With ImarisFileConverter 9.10.0 and 10.0.0 and only Imaris 9.9.1 on disk,
\* the default call has returned the Imaris 9.9.1 folder.
C13_Witness ==
    /\ locate_pc = "done"
    /\ paths_to_check = <<>>
    /\ installed = {ConverterCheck \o VersionStr(<<9, 10, 0>>),
                    ConverterCheck \o VersionStr(<<10, 0, 0>>),
                    ImarisCheck \o VersionStr(<<9, 9, 1>>)}
    /\ locate_ret = ImarisCheck \o VersionStr(<<9, 9, 1>>)

-----------------------------------------------------------------------------
(* misc.py: save_script_parameters (lines 706-758)                         *)

MaxInputs == 2

\* str.upper() and str.lower() on the ASCII letters.
LowerLetters ==
    <<"a", "b", "c", "d", "e", "f", "g", "h", "i", "j", "k", "l", "m",
      "n", "o", "p", "q", "r", "s", "t", "u", "v", "w", "x", "y", "z">>
UpperLetters ==
    <<"A", "B", "C", "D", "E", "F", "G", "H", "I", "J", "K", "L", "M",
      "N", "O", "P", "Q", "R", "S", "T", "U", "V", "W", "X", "Y", "Z">>
UpperChar(c) ==
    IF \E i \in 1..Len(LowerLetters) : LowerLetters[i] = c
    THEN UpperLetters[CHOOSE i \in 1..Len(LowerLetters) : LowerLetters[i] = c]
    ELSE c
LowerChar(c) ==
    IF \E i \in 1..Len(UpperLetters) : UpperLetters[i] = c
    THEN LowerLetters[CHOOSE i \in 1..Len(UpperLetters) : UpperLetters[i] = c]
    ELSE c
Upper(str) == [i \in 1..Len(str) |-> UpperChar(str[i])]
Lower(str) == [i \in 1..Len(str) |-> LowerChar(str[i])]

\* Line 739.
skip_keys ==
    << <<"U", "S", "E", "R", "N", "A", "M", "E">>, <<"S", "J", "L", "O", "G">>,
       <<"C", "O", "M", "M", "A", "N", "D">>, <<"R", "M">> >>

Password == <<"p", "a", "s", "s", "w", "o", "r", "d">>

\* Names a script header can declare: the runtime keys and ordinary names.
InputNames ==
    {skip_keys[i] : i \in 1..Len(skip_keys)}
        \cup {<<"n">>, <<"f", "o", "r", "m", "a", "t">>}

\* item.getWidgetStyle(): None or a string.
WidgetStyles ==
    {None, Num(Password), Num(<<"P", "a", "s", "s", "W", "o", "r", "d">>),
     Num(<<"f", "i", "l", "e">>)}

\* inputs.get(key) as str() renders it; None: inputs holds no such key.
InputValues == {None, Num(<<"v">>)}

ScriptItems == [name : InputNames, style : WidgetStyles, value : InputValues]

\* Lines 743-756: the line written for one declared item, <<>> if it is skipped.
WrittenFor(item) ==
    IF \E k \in 1..Len(skip_keys) : Contains(Upper(item.name), skip_keys[k])
    THEN <<>>
    ELSE IF item.style # None /\ Lower(item.style[1]) = Password
    THEN <<>>
    ELSE IF item.value # None
    THEN <<item.name \o <<":", " ">> \o item.value[1] \o <<"\n">>>>
    ELSE <<>>

\* The password test of line 751 without lower().
save_script_parameters_exact_style(found, declared) ==
    IF ~found
    THEN [opened |-> FALSE, lines |-> <<>>, printed |-> "skipped"]
    ELSE [opened |-> TRUE,
          lines |-> Concat([i \in 1..Len(declared) |->
              IF \E k \in 1..Len(skip_keys) : Contains(Upper(declared[i].name), skip_keys[k])
                 \/ declared[i].style = Num(Password) \/ declared[i].value = None
              THEN <<>>
              ELSE <<declared[i].name \o <<":", " ">> \o declared[i].value[1] \o <<"\n">>>>]),
          printed |-> "saved"]

\* Lines 727-758.
save_script_parameters(found, declared) ==
    IF ~found
    THEN [opened |-> FALSE, lines |-> <<>>, printed |-> "skipped"]
    ELSE [opened |-> TRUE,
          lines |-> Concat([i \in 1..Len(declared) |-> WrittenFor(declared[i])]),
          printed |-> "saved"]

\* The declared inputs of a script have distinct names.
DeclaredLists ==
    UNION {{d \in [1..n -> ScriptItems] :
               \A i, j \in 1..n : i # j => d[i].name # d[j].name} : n \in 0..MaxInputs}

ScriptInit ==
    /\ module_found \in BOOLEAN
    /\ declared_inputs \in DeclaredLists
    /\ script_pc = "call"
    /\ file_opened = FALSE
    /\ file_lines = <<>>
    /\ script_printed = "nothing"

ScriptIdle ==
    /\ module_found = FALSE
    /\ declared_inputs = <<>>
    /\ script_pc = "idle"
    /\ file_opened = FALSE
    /\ file_lines = <<>>
    /\ script_printed = "nothing"

CallSaveScriptParameters ==
    /\ script_pc = "call"
    /\ LET r == save_script_parameters(module_found, declared_inputs)
       IN  /\ file_opened' = r.opened
           /\ file_lines' = r.lines
           /\ script_printed' = r.printed
    /\ script_pc' = "done"
    /\ UNCHANGED <<module_found, declared_inputs, notScript>>

\* The part of a written line before ": ".
LineKey(line) == Split(line, <<":", " ">>)[1]

RuntimeKeys == {skip_keys[i] : i \in 1..Len(skip_keys)}

IsPasswordStyle(style) == style # None /\ Lower(style[1]) = Password

\* C14: save_script_parameters writes no line for a declared input whose
\* widget style is "password" in any letter case, and no line for a runtime
\* key (USERNAME, SJLOG, COMMAND, RM).
C14_NoPasswordNoRuntimeKey ==
    \A l \in 1..Len(file_lines) :
        /\ LineKey(file_lines[l]) \notin RuntimeKeys
        /\ \A i \in 1..Len(declared_inputs) :
              declared_inputs[i].name = LineKey(file_lines[l])
                  => ~IsPasswordStyle(declared_inputs[i].style)

\* A script declaring a valued input of style "PassWord" and a valued plain
\* input has been saved: only the plain one is in the file.
C14_Witness ==
    /\ script_pc = "done"
    /\ file_opened
    /\ Len(declared_inputs) = MaxInputs
    /\ \E i \in 1..Len(declared_inputs) :
          /\ declared_inputs[i].style = Num(<<"P", "a", "s", "s", "W", "o", "r", "d">>)
          /\ declared_inputs[i].value # None
    /\ Len(file_lines) = MaxInputs - 1

\* The lines of the inputs that have a value, are not password-styled and
\* are not a runtime key, in declaration order.
ExpectedLines(declared) ==
    LET kept == SelectSeq(declared, LAMBDA it :
                    /\ it.value # None
                    /\ ~IsPasswordStyle(it.style)
                    /\ it.name \notin RuntimeKeys)
    IN  [i \in 1..Len(kept) |-> kept[i].name \o <<":", " ">> \o kept[i].value[1] \o <<"\n">>]

\* C15: with a ScriptModule available, every declared input that has a
\* value, is not of style "password" and is not one of the runtime keys
\* is in the file as one "key: value" line, in declaration order.
C15_AllOtherInputsRecorded ==
    (script_pc = "done" /\ module_found)
        => /\ file_opened
           /\ file_lines = ExpectedLines(declared_inputs)

-----------------------------------------------------------------------------
(* Specifications: one per function, the other functions idle              *)

InitStats == StatsInit /\ ElapsedIdle /\ PctIdle /\ ParseIdle /\ MailIdle /\ FocusIdle /\ CsvIdle
    /\ SaveIdle /\ LocateIdle /\ ScriptIdle
NextStats == CallMeanAndStdv
SpecStats == InitStats /\ [][NextStats]_vars

InitElapsed == ElapsedInit /\ StatsIdle /\ PctIdle /\ ParseIdle /\ MailIdle /\ FocusIdle /\ CsvIdle
    /\ SaveIdle /\ LocateIdle /\ ScriptIdle
NextElapsed == CallElapsedTimeSince
SpecElapsed == InitElapsed /\ [][NextElapsed]_vars

InitPct == PctInit /\ StatsIdle /\ ElapsedIdle /\ ParseIdle /\ MailIdle /\ FocusIdle /\ CsvIdle
    /\ SaveIdle /\ LocateIdle /\ ScriptIdle
NextPct == CallPercentage \/ CallPercentageOfZero
SpecPct == InitPct /\ [][NextPct]_vars

InitParse == ParseInit /\ StatsIdle /\ ElapsedIdle /\ PctIdle /\ MailIdle /\ FocusIdle /\ CsvIdle
    /\ SaveIdle /\ LocateIdle /\ ScriptIdle
NextParse == CallParseUrl
SpecParse == InitParse /\ [][NextParse]_vars

InitMail == MailInit /\ StatsIdle /\ ElapsedIdle /\ PctIdle /\ ParseIdle /\ FocusIdle /\ CsvIdle
    /\ SaveIdle /\ LocateIdle /\ ScriptIdle
NextMail == CallSendNotificationEmail
SpecMail == InitMail /\ [][NextMail]_vars

InitFocus == FocusInit /\ StatsIdle /\ ElapsedIdle /\ PctIdle /\ ParseIdle /\ MailIdle /\ CsvIdle
    /\ SaveIdle /\ LocateIdle /\ ScriptIdle
NextFocus == CallFindFocus
SpecFocus == InitFocus /\ [][NextFocus]_vars

InitCsv ==
    CsvInit /\ StatsIdle /\ ElapsedIdle /\ PctIdle /\ ParseIdle /\ MailIdle /\ FocusIdle
    /\ SaveIdle /\ LocateIdle /\ ScriptIdle
NextCsv == CallWriteCsv
SpecCsv == InitCsv /\ [][NextCsv]_vars

InitSave ==
    SaveInit /\ StatsIdle /\ ElapsedIdle /\ PctIdle /\ ParseIdle /\ MailIdle /\ FocusIdle
    /\ CsvIdle /\ LocateIdle /\ ScriptIdle
NextSave == CallSaveImageInFormat
SpecSave == InitSave /\ [][NextSave]_vars

InitLocate ==
    LocateInit /\ StatsIdle /\ ElapsedIdle /\ PctIdle /\ ParseIdle /\ MailIdle /\ FocusIdle
    /\ CsvIdle /\ SaveIdle /\ ScriptIdle
NextLocate == CallLocateLatestImaris
SpecLocate == InitLocate /\ [][NextLocate]_vars

InitScript ==
    ScriptInit /\ StatsIdle /\ ElapsedIdle /\ PctIdle /\ ParseIdle /\ MailIdle /\ FocusIdle
    /\ CsvIdle /\ SaveIdle /\ LocateIdle
NextScript == CallSaveScriptParameters
SpecScript == InitScript /\ [][NextScript]_vars

Init ==
    \/ InitStats \/ InitElapsed \/ InitPct \/ InitParse \/ InitMail \/ InitFocus
    \/ InitCsv \/ InitSave \/ InitLocate \/ InitScript
Next ==
    \/ NextStats \/ NextElapsed \/ NextPct \/ NextParse \/ NextMail \/ NextFocus
    \/ NextCsv \/ NextSave \/ NextLocate \/ NextScript
Spec == Init /\ [][Next]_vars

====
